---- MODULE Spec2Model ----
(***************************************************************************)
(* Model of the rendering core of simple-engine-rs (src/src/rendering.rs): *)
(* the per-frame synchronisation of RendererHandler::on_update             *)
(* (handle_possible_resize, render) and the dynamic mesh batcher           *)
(* (prepare_dynamic_meshes, get_command_buffers).                          *)
(*                                                                         *)
(* The specifications share the state and the operators:                   *)
(*   Spec      - the frame loop, step by step, with the GPU, the window    *)
(*               and the swapchain as the environment, over a fixed scene; *)
(*   SpecBatch - the batch phase of a frame (rendering.rs 741-745) run     *)
(*               between mutations of the scene;                           *)
(*   SpecRemat - SpecBatch with meshes that change their material;         *)
(*   SpecAssets - SpecBatch with an asset library that loses materials and *)
(*               a pipeline cache that may lack pipelines;                 *)
(*   SpecImages - Spec on a surface whose recreated swapchains may have    *)
(*               another number of images;                                 *)
(*   SpecFlight - the frame loop with fewer images than updates;           *)
(*   SpecLive  - the frame loop on a window of fixed size, with the        *)
(*               fairness of render's steps and of the GPU.                *)
(***************************************************************************)
EXTENDS Integers, Sequences, FiniteSets, TLC

VARIABLES
    \* ---- scene and collaborators (World, AssetLibrary, winit window)
    meshes,             \* the (DynamicMesh, Transform) pairs, in query iteration order
    materials,          \* AssetLibrary.materials, in list order
    camera,             \* the Camera component, Option
    window_size,        \* window_handle.inner_size()
    image_counts,       \* the numbers of images the surface gives a recreated swapchain
    \* ---- Renderer fields (rendering.rs 135-163)
    vp_pos,             \* Renderer.vp_pos
    projection,         \* Renderer.vp_data.projection
    vp_buffers,         \* Renderer.vp_buffers, one per image
    viewport,           \* Renderer.viewport.extent
    window_resized,     \* Renderer.window_resized
    recreate_swapchain, \* Renderer.recreate_swapchain
    fences,             \* Renderer.fences, one Option per image
    previous_fence,     \* Renderer.previous_fence
    pipelines,          \* Renderer.pipelines
    dynamic_mesh_data,  \* Renderer.dynamic_mesh_data
    swapchain,          \* Renderer.swapchain / images / framebuffers (generation, extent)
    \* ---- locals of render() that live across its steps
    pc,                 \* position of on_update
    image_i,            \* the acquired image index
    command_buffer,     \* what get_command_buffers recorded
    \* ---- the GPU queue
    gpu,                \* the submissions made so far, in submission order
    \* ---- instrumentation
    next_obj,           \* number of vertex buffers allocated so far (buffer identity)
    frame,              \* number of on_update calls started
    mutations,          \* number of scene mutations made
    log                 \* what the last steps did (see the Log* definitions)

vars == << meshes, materials, camera, window_size, image_counts, vp_pos, projection, vp_buffers, viewport,
           window_resized, recreate_swapchain, fences, previous_fence, pipelines,
           dynamic_mesh_data, swapchain, pc, image_i, command_buffer, gpu,
           next_obj, frame, mutations, log >>

sceneVars == << meshes, materials, camera, vp_pos >>
syncVars  == << window_size, image_counts, projection, vp_buffers, viewport, window_resized,
                recreate_swapchain, fences, previous_fence, pipelines, swapchain,
                image_i, gpu >>

(***************************************************************************)
(* Bounds of the exploration.                                              *)
(***************************************************************************)
MaxMutations == 2   \* scene mutations per behaviour of SpecBatch
MaxFrames    == 2   \* on_update calls per behaviour
NumImages    == 2   \* images of the swapchain (caps.min_image_count)

(***************************************************************************)
(* Option<T>                                                               *)
(***************************************************************************)
None == [some |-> FALSE]
Some(v) == [some |-> TRUE, val |-> v]

(***************************************************************************)
(* Vectors: Vec3d as a triple of integers.                                 *)
(***************************************************************************)
VecSub(a, b) == << a[1] - b[1], a[2] - b[2], a[3] - b[3] >>
length_sqr(v) == v[1] * v[1] + v[2] * v[2] + v[3] * v[3]

Origin == << 0, 0, 0 >>
\* The positions the scene uses: squared distances 1, 9, 25 from the origin.
Positions == { << 1, 0, 0 >>, << 0, 3, 0 >>, << 0, 0, 5 >> }
CameraPositions == { Origin, << 0, 3, 0 >> }

\* The vertex lists a mesh may hold (a vertex is a number).
VertexLists == { << >>, << 1 >>, << 2, 1 >> }

(***************************************************************************)
(* The asset library as loaded: materials in list order, their shaders.    *)
(***************************************************************************)
Materials == << [name |-> "a", vertex_shader |-> "vs", fragment_shader |-> "fa"],
                [name |-> "b", vertex_shader |-> "vs", fragment_shader |-> "fb"] >>
MaterialNames == { Materials[k].name : k \in 1..Len(Materials) }
Shaders == { "vs", "fa", "fb" }

(***************************************************************************)
(* HashMap insert.                                                         *)
(***************************************************************************)
MapInsert(f, key, v) == [k \in (DOMAIN f) \cup {key} |-> IF k = key THEN v ELSE f[k]]
EmptyMap == [k \in {} |-> 0]

(***************************************************************************)
(* DynamicMeshBuffers::new                                                 *)
(***************************************************************************)
DynamicMeshBuffers_new ==
    [id_count |-> 0, vertex |-> EmptyMap, vertex_ptr |-> None,
     model |-> None, indirect_draw |-> None]

(***************************************************************************)
(* allocate_dynamic_mesh: a new vertex buffer holding a copy of the mesh's *)
(* vertices.  obj is the identity of the buffer object (its device         *)
(* address); src records which mesh it was built from.                     *)
(***************************************************************************)
allocate_dynamic_mesh(obj, ms, i) ==
    [obj |-> obj, data |-> ms[i].vertices, src |-> i]

device_address(buffer) == buffer.obj

(***************************************************************************)
(* ModelData of a transform: Matrix4f::translation puts (-x, y, z) in its  *)
(* last row; rotation and scale are the identity in the scenes explored.   *)
(***************************************************************************)
translation(vec) == << -vec[1], vec[2], vec[3] >>
ModelData(mesh) == [model |-> translation(mesh.position)]

(***************************************************************************)
(* filtered_by_material: the indices of the meshes of a material, in query *)
(* iteration order.                                                        *)
(***************************************************************************)
RECURSIVE FilterFrom(_, _, _)
FilterFrom(ms, material, i) ==
    IF i > Len(ms) THEN << >>
    ELSE IF ms[i].material = material
         THEN << i >> \o FilterFrom(ms, material, i + 1)
         ELSE FilterFrom(ms, material, i + 1)

filtered_by_material(ms, material) == FilterFrom(ms, material, 1)

(***************************************************************************)
(* slice::sort_by with the comparator of line 394: a stable sort by the    *)
(* squared distance to the camera.  Insert puts x behind every element     *)
(* that does not compare greater than x.                                   *)
(***************************************************************************)
DistSqr(ms, i, camera_pos) == length_sqr(VecSub(ms[i].position, camera_pos))

RECURSIVE InsertUnstable(_, _, _, _)
InsertUnstable(sorted, x, ms, camera_pos) ==
    IF sorted = << >> THEN << x >>
    ELSE IF DistSqr(ms, Head(sorted), camera_pos) < DistSqr(ms, x, camera_pos)
         THEN << Head(sorted) >> \o InsertUnstable(Tail(sorted), x, ms, camera_pos)
         ELSE << x >> \o sorted

RECURSIVE Insert(_, _, _, _)
Insert(sorted, x, ms, camera_pos) ==
    IF sorted = << >> THEN << x >>
    ELSE IF DistSqr(ms, Head(sorted), camera_pos) <= DistSqr(ms, x, camera_pos)
         THEN << Head(sorted) >> \o Insert(Tail(sorted), x, ms, camera_pos)
         ELSE << x >> \o sorted

RECURSIVE SortFrom(_, _, _, _)
SortFrom(todo, sorted, ms, camera_pos) ==
    IF todo = << >> THEN sorted
    ELSE SortFrom(Tail(todo), Insert(sorted, Head(todo), ms, camera_pos), ms, camera_pos)

sort_by(idx, ms, camera_pos) == SortFrom(idx, << >>, ms, camera_pos)

(***************************************************************************)
(* prepare_dynamic_meshes, the loop body (rendering.rs 402-455).  acc is   *)
(* the state the loop threads through:                                     *)
(*   ms, pmb             the meshes and the material's DynamicMeshBuffers  *)
(*   vertex_ptr, model, indirect, counter   the locals of lines 396-400    *)
(*   next_obj            the allocator's next buffer identity              *)
(*   ok                  FALSE once an unwrap() has panicked               *)
(*   order, ids, reup    instrumentation: the meshes given an entry, the   *)
(*                       ids handed out, the re-uploads made               *)
(***************************************************************************)

\* lines 404-433 without the increment of line 425
UploadMeshNoIncrement(acc, i) ==
    LET mesh == acc.ms[i] IN
    IF ~mesh.buffer_id.some
    THEN [acc EXCEPT
            !.pmb.vertex = MapInsert(@, acc.pmb.id_count,
                                     allocate_dynamic_mesh(acc.next_obj, acc.ms, i)),
            !.ms[i].buffer_id = Some(acc.pmb.id_count),
            !.ms[i].changed = FALSE,
            !.next_obj = @ + 1,
            !.ids = Append(@, [id |-> acc.pmb.id_count, mesh |-> i])]
    ELSE acc

\* lines 404-433: first upload, or re-upload of a changed mesh
UploadMesh(acc, i) ==
    LET mesh == acc.ms[i] IN
    IF ~mesh.buffer_id.some
    THEN [acc EXCEPT
            !.pmb.vertex = MapInsert(@, acc.pmb.id_count,
                                     allocate_dynamic_mesh(acc.next_obj, acc.ms, i)),
            !.ms[i].buffer_id = Some(acc.pmb.id_count),
            !.ms[i].changed = FALSE,
            !.pmb.id_count = @ + 1,
            !.next_obj = @ + 1,
            !.ids = Append(@, [id |-> acc.pmb.id_count, mesh |-> i])]
    ELSE IF mesh.changed
    THEN [acc EXCEPT
            \* line 428: the key is pmb.id_count
            !.pmb.vertex = MapInsert(@, acc.pmb.id_count,
                                     allocate_dynamic_mesh(acc.next_obj, acc.ms, i)),
            !.ms[i].changed = FALSE,
            !.next_obj = @ + 1,
            !.reup = @ \cup { [mesh |-> i, id |-> mesh.buffer_id.val,
                               old |-> IF mesh.buffer_id.val \in DOMAIN acc.pmb.vertex
                                       THEN Some(acc.pmb.vertex[mesh.buffer_id.val].obj)
                                       ELSE None] }]
    ELSE acc

\* the DrawIndirectCommand of lines 445-450, with first_instance left at 0
DrawIndirectCommandZero(counter, mesh) ==
    [instance_count |-> 1, first_instance |-> 0,
     vertex_count |-> Len(mesh.vertices), first_vertex |-> 0]

\* the DrawIndirectCommand of lines 445-450
DrawIndirectCommand(counter, mesh) ==
    [instance_count |-> 1, first_instance |-> counter,
     vertex_count |-> Len(mesh.vertices), first_vertex |-> 0]

\* lines 435-454: one entry in each of the three lists
AppendEntries(acc, i) ==
    LET mesh == acc.ms[i] IN
    IF mesh.buffer_id.val \notin DOMAIN acc.pmb.vertex
    THEN [acc EXCEPT !.ok = FALSE]      \* line 435: get(..).unwrap() on None
    ELSE [acc EXCEPT
            !.vertex_ptr = Append(@, device_address(acc.pmb.vertex[mesh.buffer_id.val])),
            !.model = Append(@, ModelData(mesh)),
            !.indirect = Append(@, DrawIndirectCommand(acc.counter, mesh)),
            !.counter = @ + 1,
            !.order = Append(@, i)]

\* the loop body without the test of line 403
PrepareMeshNoSkip(acc, i) ==
    IF ~acc.ok THEN acc
    ELSE AppendEntries(UploadMesh(acc, i), i)

\* the loop body with the test of line 403 made after the upload
PrepareMeshSkipLate(acc, i) ==
    IF ~acc.ok THEN acc
    ELSE IF Len(acc.ms[i].vertices) = 0 THEN UploadMesh(acc, i)
    ELSE AppendEntries(UploadMesh(acc, i), i)

\* the loop body, lines 403-454
PrepareMesh(acc, i) ==
    IF ~acc.ok THEN acc
    ELSE IF Len(acc.ms[i].vertices) = 0 THEN acc      \* line 403: continue
    ELSE AppendEntries(UploadMesh(acc, i), i)

RECURSIVE PrepareLoop(_, _)
PrepareLoop(sorted, acc) ==
    IF sorted = << >> THEN acc
    ELSE PrepareLoop(Tail(sorted), PrepareMesh(acc, Head(sorted)))

\* lines 457-513 keeping the old buffer where the new list is empty
BuildTablesKeep(pmb, vertex_ptr, model, indirect) ==
    [pmb EXCEPT
        !.model = IF Len(model) > 0 THEN Some(model) ELSE @,
        !.vertex_ptr = IF Len(vertex_ptr) > 0 THEN Some(vertex_ptr) ELSE @,
        !.indirect_draw = IF Len(indirect) > 0 THEN Some(indirect) ELSE @]

\* lines 457-513: the three buffers are rebuilt from the lists, or unset
BuildTables(pmb, vertex_ptr, model, indirect) ==
    [pmb EXCEPT
        !.model = IF Len(model) > 0 THEN Some(model) ELSE None,
        !.vertex_ptr = IF Len(vertex_ptr) > 0 THEN Some(vertex_ptr) ELSE None,
        !.indirect_draw = IF Len(indirect) > 0 THEN Some(indirect) ELSE None]

(***************************************************************************)
(* prepare_dynamic_meshes(world, state, material), rendering.rs 382-516.   *)
(* st = [ms, dmd, next_obj, ok, order, ids, reup]: the meshes, the         *)
(* dynamic_mesh_data map, the allocator, whether no panic happened, and    *)
(* per material the instrumentation of the loop.                           *)
(***************************************************************************)
\* prepare_dynamic_meshes keeping a batch that is already complete
prepare_dynamic_meshes_cached(st, material, camera_pos) ==
    LET pmb0 == IF material \in DOMAIN st.dmd THEN st.dmd[material]
                ELSE DynamicMeshBuffers_new                       \* lines 385-391
        sorted == sort_by(filtered_by_material(st.ms, material), st.ms, camera_pos)
        acc0 == [ms |-> st.ms, pmb |-> pmb0, vertex_ptr |-> << >>, model |-> << >>,
                 indirect |-> << >>, counter |-> 0, next_obj |-> st.next_obj,
                 ok |-> TRUE, order |-> << >>, ids |-> << >>, reup |-> {}]
        acc == PrepareLoop(sorted, acc0)
        pmb1 == BuildTables(acc.pmb, acc.vertex_ptr, acc.model, acc.indirect)
    IN  IF ~st.ok THEN st
        ELSE IF /\ material \in DOMAIN st.dmd
                /\ st.dmd[material].vertex_ptr.some
                /\ st.dmd[material].model.some
                /\ st.dmd[material].indirect_draw.some
             THEN st
        ELSE IF ~acc.ok THEN [st EXCEPT !.ok = FALSE]
        ELSE [ms |-> acc.ms,
              dmd |-> MapInsert(st.dmd, material, pmb1),
              next_obj |-> acc.next_obj,
              ok |-> TRUE,
              order |-> MapInsert(st.order, material, acc.order),
              ids |-> MapInsert(st.ids, material, acc.ids),
              reup |-> MapInsert(st.reup, material, acc.reup)]

\* prepare_dynamic_meshes, rendering.rs 382-516
prepare_dynamic_meshes(st, material, camera_pos) ==
    LET pmb0 == IF material \in DOMAIN st.dmd THEN st.dmd[material]
                ELSE DynamicMeshBuffers_new                       \* lines 385-391
        sorted == sort_by(filtered_by_material(st.ms, material), st.ms, camera_pos)
        acc0 == [ms |-> st.ms, pmb |-> pmb0, vertex_ptr |-> << >>, model |-> << >>,
                 indirect |-> << >>, counter |-> 0, next_obj |-> st.next_obj,
                 ok |-> TRUE, order |-> << >>, ids |-> << >>, reup |-> {}]
        acc == PrepareLoop(sorted, acc0)
        pmb1 == BuildTables(acc.pmb, acc.vertex_ptr, acc.model, acc.indirect)
    IN  IF ~st.ok THEN st
        ELSE IF ~acc.ok THEN [st EXCEPT !.ok = FALSE]
        ELSE [ms |-> acc.ms,
              dmd |-> MapInsert(st.dmd, material, pmb1),
              next_obj |-> acc.next_obj,
              ok |-> TRUE,
              order |-> MapInsert(st.order, material, acc.order),
              ids |-> MapInsert(st.ids, material, acc.ids),
              reup |-> MapInsert(st.reup, material, acc.reup)]

\* render(), lines 741-743: every material of the asset library, in list order
RECURSIVE PrepareAllFrom(_, _, _, _)
PrepareAllFrom(st, mats, k, camera_pos) ==
    IF k > Len(mats) THEN st
    ELSE PrepareAllFrom(prepare_dynamic_meshes(st, mats[k].name, camera_pos),
                        mats, k + 1, camera_pos)

PrepareAll(ms, mats, dmd, nobj, camera_pos) ==
    PrepareAllFrom([ms |-> ms, dmd |-> dmd, next_obj |-> nobj, ok |-> TRUE,
                    order |-> EmptyMap, ids |-> EmptyMap, reup |-> EmptyMap],
                   mats, 1, camera_pos)

(***************************************************************************)
(* get_command_buffers, rendering.rs 518-614: one render pass on the       *)
(* image's framebuffer and, for every material with a complete batch, a    *)
(* pipeline bind, three descriptor sets and one indirect draw.  The        *)
(* HashMap is visited in no specified order, so the draws are a set.       *)
(***************************************************************************)
Complete(entry) ==
    entry.vertex_ptr.some /\ entry.model.some /\ entry.indirect_draw.some

\* the materials the loop of line 542 does not skip
Drawn(dmd) == { key \in DOMAIN dmd : Complete(dmd[key]) }

\* a lookup that falls back on the first material of the list
MaterialOfOrFirst(mats, key) ==
    LET found == { k \in 1..Len(mats) : mats[k].name = key }
    IN  IF found # {} THEN Some(mats[CHOOSE k \in found : \A j \in found : k <= j])
        ELSE IF mats # << >> THEN Some(mats[1])
        ELSE None

\* assets.materials.iter().find(|x| x.name == *key), line 545
MaterialOf(mats, key) ==
    LET found == { k \in 1..Len(mats) : mats[k].name = key }
    IN  IF found = {} THEN None
        ELSE Some(mats[CHOOSE k \in found : \A j \in found : k <= j])

PipelineKey(material) == << material.vertex_shader, material.fragment_shader >>

\* FALSE when one of the unwrap()s of lines 545 and 550 panics
RecordOk(mats, dmd, pls) ==
    \A key \in Drawn(dmd) :
        /\ MaterialOf(mats, key).some
        /\ PipelineKey(MaterialOf(mats, key).val) \in DOMAIN pls

get_command_buffers(mats, dmd, pls, sc, image_id) ==
    [framebuffer |-> [image |-> image_id, swapchain |-> sc.gen],
     draws |-> { [material |-> key,
                  pipeline |-> pls[PipelineKey(MaterialOf(mats, key).val)],
                  vp_set |-> image_id,
                  m_set |-> dmd[key].model.val,
                  vertex_set |-> dmd[key].vertex_ptr.val,
                  draw_indirect |-> dmd[key].indirect_draw.val] : key \in Drawn(dmd) }]

(***************************************************************************)
(* Matrix4f::perspective, matrices.rs 56-66.  f32 values are modelled as   *)
(* exact rationals << numerator, denominator >> in lowest terms;           *)
(* f = 1 / tan(fovy / 2) stays symbolic, so that f / aspect is the         *)
(* rational 1 / aspect as a multiple of f.                                 *)
(***************************************************************************)
Abs(n) == IF n < 0 THEN -n ELSE n

RECURSIVE Gcd(_, _)
Gcd(a, b) == IF b = 0 THEN a ELSE Gcd(b, a % b)

\* the quotient n / d of two integers, d # 0
Rat(n, d) ==
    LET g == Gcd(Abs(n), Abs(d))
        sgn == IF d < 0 THEN -1 ELSE 1
    IN  << sgn * (n \div g), sgn * (d \div g) >>

RatInv(q) == Rat(q[2], q[1])

perspective(fovy, aspect, near, far) ==
    [kind |-> "perspective",
     m00 |-> [f_of |-> fovy, times |-> RatInv(aspect)],      \* f / aspect
     m11 |-> [f_of |-> fovy, times |-> << 1, 1 >>],          \* f
     m22 |-> Rat(far + near, near - far),                    \* a
     m23 |-> << -1, 1 >>,
     m32 |-> Rat(2 * far * near, near - far)]                \* b

Identity == [kind |-> "identity"]

\* the Camera component of the scenes explored: vfov in degrees, near, far
TheCamera == [vfov |-> 60, near |-> 1, far |-> 10]

\* the drawable sizes the window takes, << width, height >>
WindowSizes == { << 800, 600 >>, << 600, 600 >> }

\* recalculate_projection with the aspect ratio inverted
recalculate_projection_inverted(cam, new_dimensions) ==
    perspective(cam.vfov, Rat(new_dimensions[2], new_dimensions[1]), cam.near, cam.far)

\* recalculate_projection, rendering.rs 682-691 (the camera is present)
recalculate_projection(cam, new_dimensions) ==
    perspective(cam.vfov, Rat(new_dimensions[1], new_dimensions[2]), cam.near, cam.far)

(***************************************************************************)
(* get_pipeline, rendering.rs 311-364: a pipeline of the two shaders bound *)
(* to the current viewport and render pass; build tells the objects of     *)
(* different swapchain generations apart.                                  *)
(***************************************************************************)
get_pipeline(key, vp, sc) == [shaders |-> key, viewport |-> vp, build |-> sc.gen]

\* recreate_pipelines losing the entries of all keys but one
recreate_pipelines_drop(pls, vp, sc) ==
    LET keep == IF DOMAIN pls = {} THEN {} ELSE { CHOOSE k \in DOMAIN pls : TRUE }
    IN  [k \in keep |-> get_pipeline(k, vp, sc)]

\* recreate_pipelines, rendering.rs 661-680: every key of the cache is
\* inserted again with a pipeline built now
recreate_pipelines(pls, vp, sc) ==
    [k \in DOMAIN pls |-> get_pipeline(k, vp, sc)]

\* FALSE when a find(..).unwrap() of lines 671-676 panics
RecreatePipelinesOk(pls) ==
    \A k \in DOMAIN pls : k[1] \in Shaders /\ k[2] \in Shaders

(***************************************************************************)
(* The initial state: Renderer::new (rendering.rs 918-951) followed by     *)
(* init (798-915), with a scene, a window and a pipeline cache in place.   *)
(***************************************************************************)
\* the indices of n images
ImagesOf(n) == 0..(n - 1)

Images == ImagesOf(NumImages)

Mesh(material, vertices, position, changed) ==
    [material |-> material, vertices |-> vertices, buffer_id |-> None,
     changed |-> changed, position |-> position]

\* one material, three meshes at distances 1, 5, 3
SceneOneMaterial ==
    << Mesh("a", << 1 >>, << 1, 0, 0 >>, FALSE),
       Mesh("a", << 2, 1 >>, << 0, 0, 5 >>, FALSE),
       Mesh("a", << 1 >>, << 0, 3, 0 >>, FALSE) >>

\* two materials, two meshes at the same distance
SceneTwoMaterials ==
    << Mesh("a", << 2, 1 >>, << 0, 3, 0 >>, TRUE),
       Mesh("b", << 1 >>, << 1, 0, 0 >>, FALSE),
       Mesh("a", << 1 >>, << 0, 3, 0 >>, FALSE) >>

\* the scenes a behaviour of SpecBatch starts from
InitScenes == { SceneOneMaterial, SceneTwoMaterials }

AllPipelineKeys == { PipelineKey(Materials[k]) : k \in 1..Len(Materials) }

EmptyLog ==
    [fresh |-> FALSE,      \* the batches were built from the scene as it is now
     order |-> EmptyMap,   \* per material: the meshes given an entry, in order
     ids |-> EmptyMap,     \* per material: the ids handed out by the last build
     handed |-> [m \in MaterialNames |-> << >>],
                           \* per material: all the ids handed out so far, in order
     reup |-> EmptyMap,    \* per material: the re-uploads of the last build
     before |-> None,      \* dynamic_mesh_data and meshes before the last build
     inputs |-> None,      \* what the last build sorted: camera position and meshes
     prev |-> None,        \* inputs and order of the build before the last one
     resize |-> None,      \* the recreation made by the last handle_possible_resize
     notified |-> 0,       \* Resized events since the last update: 0, 1, 2 = several
     update |-> None,      \* the flags and the swapchain the update started with,
                           \* kept until its acquisition
     acquire |-> "none",   \* the result of the last acquisition of this frame
     submit |-> "none"]    \* the result of the last submission

\* the cache holding a pipeline for each of the keys, built at start-up
PipelinesFor(keys) ==
    [k \in keys |-> get_pipeline(k, << 800, 600 >>, [gen |-> 0])]

\* the renderer after init on a surface whose swapchain has n images
InitWith(n) ==
    /\ materials = Materials
    /\ window_size = << 800, 600 >>
    /\ vp_pos = Origin
    /\ projection = Identity
    /\ vp_buffers = [i \in ImagesOf(n) |-> None]
    /\ viewport = window_size
    /\ window_resized = FALSE
    /\ recreate_swapchain = FALSE
    /\ fences = [i \in ImagesOf(n) |-> None]
    /\ previous_fence = 0
    /\ dynamic_mesh_data = EmptyMap
    /\ swapchain = [gen |-> 0, extent |-> window_size, images |-> n]
    /\ pc = "idle"
    /\ image_i = 0
    /\ command_buffer = None
    /\ gpu = << >>
    /\ next_obj = 0
    /\ frame = 0
    /\ mutations = 0
    /\ log = EmptyLog

\* a surface that always gives NumImages images
InitCommon ==
    /\ image_counts = { NumImages }
    /\ InitWith(NumImages)

Init ==
    /\ meshes = SceneTwoMaterials
    /\ camera \in { None, Some(TheCamera) }
    /\ pipelines = PipelinesFor(AllPipelineKeys)
    /\ InitCommon

InitBatch ==
    /\ meshes \in InitScenes
    /\ camera = Some(TheCamera)
    /\ pipelines = PipelinesFor(AllPipelineKeys)
    /\ InitCommon

\* a surface that may give a recreated swapchain one image more
InitImages ==
    /\ meshes = SceneTwoMaterials
    /\ camera = Some(TheCamera)
    /\ pipelines = PipelinesFor(AllPipelineKeys)
    /\ image_counts = { NumImages, NumImages + 1 }
    /\ InitWith(NumImages)

\* a swapchain with fewer images than the updates explored
InitFlight ==
    /\ meshes = SceneTwoMaterials
    /\ camera = Some(TheCamera)
    /\ pipelines = PipelinesFor(AllPipelineKeys)
    /\ image_counts = { NumImages - 1 }
    /\ InitWith(NumImages - 1)

\* a scene loaded with pipelines built for some of its materials only
InitAssets ==
    /\ meshes = SceneTwoMaterials
    /\ camera = Some(TheCamera)
    /\ pipelines \in { PipelinesFor(keys) : keys \in SUBSET AllPipelineKeys }
    /\ InitCommon

(***************************************************************************)
(* The scene changes between frames (World, owned by other systems).  A    *)
(* change of a mesh's vertices sets its changed flag.                      *)
(***************************************************************************)
Mutated ==
    /\ pc = "idle"
    /\ mutations < MaxMutations
    /\ mutations' = mutations + 1
    /\ log' = [log EXCEPT !.fresh = FALSE]
    /\ UNCHANGED << materials, camera, syncVars, dynamic_mesh_data, pc,
                    command_buffer, next_obj, frame >>

SetVertices ==
    \E i \in 1..Len(meshes), vs \in VertexLists :
        /\ vs # meshes[i].vertices
        /\ meshes' = [meshes EXCEPT ![i].vertices = vs, ![i].changed = TRUE]
        /\ Mutated
        /\ UNCHANGED vp_pos

SetPosition ==
    \E i \in 1..Len(meshes), p \in Positions :
        /\ p # meshes[i].position
        /\ meshes' = [meshes EXCEPT ![i].position = p]
        /\ Mutated
        /\ UNCHANGED vp_pos

SetMaterial ==
    \E i \in 1..Len(meshes), m \in MaterialNames :
        /\ m # meshes[i].material
        /\ meshes' = [meshes EXCEPT ![i].material = m]
        /\ Mutated
        /\ UNCHANGED vp_pos

SetCameraPos ==
    \E p \in CameraPositions :
        /\ p # vp_pos
        /\ vp_pos' = p
        /\ Mutated
        /\ UNCHANGED meshes

\* a material is taken out of the asset library; its meshes stay in the world
RemoveMaterial ==
    \E k \in 1..Len(materials) :
        /\ pc = "idle"
        /\ mutations < MaxMutations
        /\ mutations' = mutations + 1
        /\ materials' = SubSeq(materials, 1, k - 1)
                            \o SubSeq(materials, k + 1, Len(materials))
        /\ log' = [log EXCEPT !.fresh = FALSE]
        /\ UNCHANGED << meshes, camera, vp_pos, syncVars, dynamic_mesh_data, pc,
                        command_buffer, next_obj, frame >>

(***************************************************************************)
(* render(), lines 741-745: the batches of all materials are built, then   *)
(* the command buffer for the acquired image is recorded.  A panic ends    *)
(* the program; the state it leaves is not observed again.                 *)
(***************************************************************************)
SortInputs(ms, camera_pos) ==
    [camera_pos |-> camera_pos,
     meshes |-> [i \in 1..Len(ms) |->
                    [material |-> ms[i].material, position |-> ms[i].position,
                     empty |-> Len(ms[i].vertices) = 0]]]

BatchPhase(to) ==
    LET st == PrepareAll(meshes, materials, dynamic_mesh_data, next_obj, vp_pos)
        ok == /\ st.ok
              /\ RecordOk(materials, st.dmd, pipelines)
              \* line 569: vp_buffers.get(image_id).unwrap(), once per draw
              /\ Drawn(st.dmd) = {} \/ image_i \in DOMAIN vp_buffers
    IN  /\ IF ok
           THEN /\ meshes' = st.ms
                /\ dynamic_mesh_data' = st.dmd
                /\ next_obj' = st.next_obj
                /\ command_buffer' =
                       Some(get_command_buffers(materials, st.dmd, pipelines,
                                                swapchain, image_i))
                /\ pc' = to
                /\ log' = [log EXCEPT
                            !.fresh = TRUE,
                            !.order = st.order, !.ids = st.ids, !.reup = st.reup,
                            !.handed = [m \in MaterialNames |->
                                           IF m \in DOMAIN st.ids
                                           THEN @[m] \o [k \in 1..Len(st.ids[m]) |->
                                                             st.ids[m][k].id]
                                           ELSE @[m]],
                            !.before = Some([dmd |-> dynamic_mesh_data, ms |-> meshes]),
                            !.inputs = Some(SortInputs(meshes, vp_pos)),
                            !.prev = IF log.inputs.some
                                     THEN Some([inputs |-> log.inputs.val,
                                                order |-> log.order])
                                     ELSE None]
           ELSE /\ pc' = "panicked"
                /\ UNCHANGED << meshes, dynamic_mesh_data, next_obj, command_buffer, log >>
        /\ UNCHANGED << materials, camera, vp_pos, syncVars, frame, mutations >>

\* the batch phase of a frame, between scene mutations (SpecBatch)
BatchFrame ==
    /\ pc = "idle"
    /\ BatchPhase("idle")

\* the batch phase as a step of render() (Spec)
BuildAndRecord ==
    /\ pc = "acquired"
    /\ BatchPhase("recorded")

(***************************************************************************)
(* The window: a Resized event sets window_resized (the event loop's       *)
(* handler) and the drawable size is whatever the window now has.          *)
(***************************************************************************)
WindowResize ==
    /\ pc = "idle"
    /\ \E sz \in WindowSizes : window_size' = sz
    /\ window_resized' = TRUE
    /\ log' = [log EXCEPT !.notified = IF @ < 2 THEN @ + 1 ELSE 2]
    /\ UNCHANGED << sceneVars, image_counts, projection, vp_buffers, viewport, recreate_swapchain,
                    fences, previous_fence, pipelines, dynamic_mesh_data, swapchain,
                    pc, image_i, command_buffer, gpu, next_obj, frame, mutations >>

(***************************************************************************)
(* handle_possible_resize, rendering.rs 693-719, the first call of         *)
(* on_update (966-969).  The steps of a recreation are taken in the        *)
(* code's order up to the first panic: swapchain.recreate(..).expect,      *)
(* the camera's expect in recalculate_projection, the unwraps of           *)
(* recreate_pipelines.                                                     *)
(***************************************************************************)
\* the log at the start of an update: nothing recreated, acquired or submitted
NewFrameLog ==
    [log EXCEPT !.resize = None, !.acquire = "none", !.submit = "none",
                !.notified = 0,
                !.update = Some([notified |-> log.notified,
                                 window_resized |-> window_resized,
                                 recreate_swapchain |-> recreate_swapchain,
                                 gen |-> swapchain.gen])]

\* handle_possible_resize without the reset of window_resized (line 695)
handle_possible_resize_keep_flag ==
    /\ pc = "idle"
    /\ frame < MaxFrames
    /\ frame' = frame + 1
    /\ IF window_resized \/ recreate_swapchain
       THEN /\ recreate_swapchain' = FALSE
            /\ UNCHANGED window_resized
            /\ \E recreated \in BOOLEAN, n \in image_counts :
                LET new_dimensions == window_size
                    new_swapchain == [gen |-> swapchain.gen + 1,
                                      extent |-> new_dimensions, images |-> n]
                IN  IF ~recreated
                    THEN /\ pc' = "panicked"
                         /\ log' = NewFrameLog
                         /\ UNCHANGED << swapchain, viewport, projection, pipelines >>
                    ELSE /\ swapchain' = new_swapchain
                         /\ viewport' = new_dimensions
                         /\ IF ~camera.some
                            THEN /\ pc' = "panicked"
                                 /\ log' = NewFrameLog
                                 /\ UNCHANGED << projection, pipelines >>
                            ELSE /\ projection' =
                                        recalculate_projection(camera.val, new_dimensions)
                                 /\ IF RecreatePipelinesOk(pipelines)
                                    THEN /\ pipelines' = recreate_pipelines(
                                                pipelines, new_dimensions, new_swapchain)
                                         /\ pc' = "render"
                                         /\ log' = [NewFrameLog EXCEPT
                                              !.resize = Some([keys |-> DOMAIN pipelines,
                                                               size |-> new_dimensions])]
                                    ELSE /\ pc' = "panicked"
                                         /\ log' = NewFrameLog
                                         /\ UNCHANGED pipelines
       ELSE /\ pc' = "render"
            /\ log' = NewFrameLog
            /\ UNCHANGED << recreate_swapchain, window_resized, swapchain, viewport,
                            projection, pipelines >>
    /\ UNCHANGED << sceneVars, image_counts, window_size, vp_buffers, fences, previous_fence,
                    dynamic_mesh_data, image_i, command_buffer, gpu, next_obj, mutations >>

\* handle_possible_resize, rendering.rs 693-719
handle_possible_resize ==
    /\ pc = "idle"
    /\ frame < MaxFrames
    /\ frame' = frame + 1
    /\ IF window_resized \/ recreate_swapchain
       THEN /\ recreate_swapchain' = FALSE
            /\ window_resized' = FALSE
            /\ \E recreated \in BOOLEAN, n \in image_counts :
                LET new_dimensions == window_size
                    new_swapchain == [gen |-> swapchain.gen + 1,
                                      extent |-> new_dimensions, images |-> n]
                IN  IF ~recreated
                    THEN /\ pc' = "panicked"
                         /\ log' = NewFrameLog
                         /\ UNCHANGED << swapchain, viewport, projection, pipelines >>
                    ELSE /\ swapchain' = new_swapchain
                         /\ viewport' = new_dimensions
                         /\ IF ~camera.some
                            THEN /\ pc' = "panicked"
                                 /\ log' = NewFrameLog
                                 /\ UNCHANGED << projection, pipelines >>
                            ELSE /\ projection' =
                                        recalculate_projection(camera.val, new_dimensions)
                                 /\ IF RecreatePipelinesOk(pipelines)
                                    THEN /\ pipelines' = recreate_pipelines(
                                                pipelines, new_dimensions, new_swapchain)
                                         /\ pc' = "render"
                                         /\ log' = [NewFrameLog EXCEPT
                                              !.resize = Some([keys |-> DOMAIN pipelines,
                                                               size |-> new_dimensions])]
                                    ELSE /\ pc' = "panicked"
                                         /\ log' = NewFrameLog
                                         /\ UNCHANGED pipelines
       ELSE /\ pc' = "render"
            /\ log' = NewFrameLog
            /\ UNCHANGED << recreate_swapchain, window_resized, swapchain, viewport,
                            projection, pipelines >>
    /\ UNCHANGED << sceneVars, image_counts, window_size, vp_buffers, fences, previous_fence,
                    dynamic_mesh_data, image_i, command_buffer, gpu, next_obj, mutations >>

(***************************************************************************)
(* render(), rendering.rs 722-796, in the steps between which the GPU and  *)
(* the presentation engine make progress.                                  *)
(***************************************************************************)
AcquireResults == { "ok", "suboptimal", "out_of_date", "error" }

\* lines 723-739 with a suboptimal acquisition ending the frame as an
\* out-of-date one does
acquire_next_image_abort ==
    /\ pc = "render"
    /\ \E r \in AcquireResults, i \in ImagesOf(swapchain.images) :
        /\ log' = [log EXCEPT !.acquire = r, !.update = None]
        /\ CASE r = "ok" ->
                    /\ image_i' = i
                    /\ pc' = "acquired"
                    /\ UNCHANGED recreate_swapchain
             [] r \in { "suboptimal", "out_of_date" } ->
                    /\ recreate_swapchain' = TRUE
                    /\ pc' = "idle"
                    /\ UNCHANGED image_i
             [] r = "error" ->
                    /\ pc' = "panicked"
                    /\ UNCHANGED << image_i, recreate_swapchain >>
    /\ UNCHANGED << sceneVars, image_counts, window_size, projection, vp_buffers, viewport,
                    window_resized, fences, previous_fence, pipelines,
                    dynamic_mesh_data, swapchain, command_buffer, gpu, next_obj,
                    frame, mutations >>

\* lines 723-739 with the swapchain recreated at once when the acquisition
\* is suboptimal
acquire_next_image_recreate ==
    /\ pc = "render"
    /\ \E r \in AcquireResults, i \in ImagesOf(swapchain.images) :
        /\ log' = [log EXCEPT !.acquire = r, !.update = None]
        /\ swapchain' = IF r = "suboptimal"
                        THEN [swapchain EXCEPT !.gen = @ + 1, !.extent = window_size]
                        ELSE swapchain
        /\ CASE r = "ok" ->
                    /\ image_i' = i
                    /\ pc' = "acquired"
                    /\ UNCHANGED recreate_swapchain
             [] r = "suboptimal" ->
                    /\ image_i' = i
                    /\ recreate_swapchain' = TRUE
                    /\ pc' = "acquired"
             [] r = "out_of_date" ->
                    /\ recreate_swapchain' = TRUE
                    /\ pc' = "idle"
                    /\ UNCHANGED image_i
             [] r = "error" ->
                    /\ pc' = "panicked"
                    /\ UNCHANGED << image_i, recreate_swapchain >>
    /\ UNCHANGED << sceneVars, image_counts, window_size, projection, vp_buffers, viewport,
                    window_resized, fences, previous_fence, pipelines,
                    dynamic_mesh_data, command_buffer, gpu, next_obj,
                    frame, mutations >>

\* lines 723-739: swapchain::acquire_next_image and the match on its result
acquire_next_image ==
    /\ pc = "render"
    /\ \E r \in AcquireResults, i \in ImagesOf(swapchain.images) :
        /\ log' = [log EXCEPT !.acquire = r, !.update = None]
        /\ CASE r = "ok" ->
                    /\ image_i' = i
                    /\ pc' = "acquired"
                    /\ UNCHANGED recreate_swapchain
             [] r = "suboptimal" ->
                    /\ image_i' = i
                    /\ recreate_swapchain' = TRUE           \* lines 737-739
                    /\ pc' = "acquired"
             [] r = "out_of_date" ->
                    /\ recreate_swapchain' = TRUE           \* lines 730-733
                    /\ pc' = "idle"
                    /\ UNCHANGED image_i
             [] r = "error" ->
                    /\ pc' = "panicked"                     \* line 734
                    /\ UNCHANGED << image_i, recreate_swapchain >>
    /\ UNCHANGED << sceneVars, image_counts, window_size, projection, vp_buffers, viewport,
                    window_resized, fences, previous_fence, pipelines,
                    dynamic_mesh_data, swapchain, command_buffer, gpu, next_obj,
                    frame, mutations >>

Signaled(fence) == gpu[fence].done

\* lines 746-748 with a wait that times out and gives the frame up
wait_image_fence_timeout ==
    /\ pc = "recorded"
    /\ pc' = IF image_i \notin DOMAIN fences THEN "panicked"
             ELSE IF fences[image_i].some /\ ~gpu[fences[image_i].val].done THEN "idle"
             ELSE "waited"
    /\ UNCHANGED << sceneVars, syncVars, dynamic_mesh_data, command_buffer,
                    next_obj, frame, mutations, log >>

\* lines 746-748 without the wait
wait_image_fence_skip ==
    /\ pc = "recorded"
    /\ pc' = IF image_i \in DOMAIN fences THEN "waited" ELSE "panicked"
    /\ UNCHANGED << sceneVars, syncVars, dynamic_mesh_data, command_buffer,
                    next_obj, frame, mutations, log >>

\* lines 746-748: image_fence.wait(None) returns once the fence has signaled
wait_image_fence ==
    /\ pc = "recorded"
    /\ IF image_i \in DOMAIN fences
       THEN /\ fences[image_i].some => Signaled(fences[image_i].val)
            /\ pc' = "waited"
       ELSE pc' = "panicked"                 \* line 746: index out of bounds
    /\ UNCHANGED << sceneVars, syncVars, dynamic_mesh_data, command_buffer,
                    next_obj, frame, mutations, log >>

SubmitResults == { "ok", "out_of_date", "error" }

\* lines 760-795 without the request of line 788
submit_noflag ==
    /\ pc = "waited"
    /\ vp_buffers' = [vp_buffers EXCEPT ![image_i] = Some([projection |-> projection])]
    /\ \E r \in SubmitResults, executed \in BOOLEAN :
        LET sub == [image |-> image_i, frame |-> frame,
                    dep |-> fences[previous_fence],           \* previous_future
                    cmd |-> command_buffer.val,
                    fenced |-> r = "ok", done |-> FALSE]
        IN  /\ log' = [log EXCEPT !.submit = r]
            /\ CASE r = "ok" ->
                        /\ executed
                        /\ gpu' = Append(gpu, sub)
                        /\ fences' = [fences EXCEPT ![image_i] = Some(Len(gpu) + 1)]
                        /\ UNCHANGED recreate_swapchain
                 [] r = "out_of_date" ->
                        /\ executed
                        /\ gpu' = Append(gpu, sub)
                        /\ fences' = [fences EXCEPT ![image_i] = None]
                        /\ UNCHANGED recreate_swapchain
                 [] r = "error" ->
                        /\ gpu' = IF executed THEN Append(gpu, sub) ELSE gpu
                        /\ fences' = [fences EXCEPT ![image_i] = None]
                        /\ UNCHANGED recreate_swapchain     \* lines 790-793
    /\ previous_fence' = image_i
    /\ pc' = "idle"
    /\ UNCHANGED << sceneVars, image_counts, window_size, projection, viewport, window_resized,
                    pipelines, dynamic_mesh_data, swapchain, image_i, command_buffer,
                    next_obj, frame, mutations >>

(***************************************************************************)
(* lines 750-795: the VP buffer of the image is written, the chain         *)
(* previous_future.join(acquire_future).then_execute(..)                   *)
(* .then_swapchain_present(..).then_signal_fence_and_flush() is flushed    *)
(* and the image's slot takes the result.  OutOfDate is the answer of the  *)
(* present step, which the chain orders after the execution of the         *)
(* command buffer: the command buffer is on the queue when it is           *)
(* reported.  Another error may come from either step.                     *)
(***************************************************************************)
submit ==
    /\ pc = "waited"
    /\ vp_buffers' = [vp_buffers EXCEPT ![image_i] = Some([projection |-> projection])]
    /\ \E r \in SubmitResults, executed \in BOOLEAN :
        LET sub == [image |-> image_i, frame |-> frame,
                    dep |-> fences[previous_fence],           \* previous_future
                    cmd |-> command_buffer.val,
                    fenced |-> r = "ok", done |-> FALSE]
        IN  /\ log' = [log EXCEPT !.submit = r]
            /\ CASE r = "ok" ->
                        /\ executed
                        /\ gpu' = Append(gpu, sub)
                        /\ fences' = [fences EXCEPT ![image_i] = Some(Len(gpu) + 1)]
                        /\ UNCHANGED recreate_swapchain
                 [] r = "out_of_date" ->
                        /\ executed
                        /\ gpu' = Append(gpu, sub)
                        /\ fences' = [fences EXCEPT ![image_i] = None]
                        /\ recreate_swapchain' = TRUE       \* lines 786-789
                 [] r = "error" ->
                        /\ gpu' = IF executed THEN Append(gpu, sub) ELSE gpu
                        /\ fences' = [fences EXCEPT ![image_i] = None]
                        /\ UNCHANGED recreate_swapchain     \* lines 790-793
    /\ previous_fence' = image_i
    /\ pc' = "idle"
    /\ UNCHANGED << sceneVars, image_counts, window_size, projection, viewport, window_resized,
                    pipelines, dynamic_mesh_data, swapchain, image_i, command_buffer,
                    next_obj, frame, mutations >>

(***************************************************************************)
(* The GPU: a submission completes once the submission its chain depends   *)
(* on has completed; its fence, if it has one, is then signaled.           *)
(***************************************************************************)
GpuComplete ==
    /\ \E k \in 1..Len(gpu) :
        /\ ~gpu[k].done
        /\ gpu[k].dep.some => gpu[gpu[k].dep.val].done
        /\ gpu' = [gpu EXCEPT ![k].done = TRUE]
    /\ UNCHANGED << sceneVars, image_counts, window_size, projection, vp_buffers, viewport,
                    window_resized, recreate_swapchain, fences, previous_fence,
                    pipelines, dynamic_mesh_data, swapchain, pc, image_i,
                    command_buffer, next_obj, frame, mutations, log >>

(***************************************************************************)
(* The specifications.                                                     *)
(***************************************************************************)
Next ==
    \/ WindowResize
    \/ handle_possible_resize
    \/ acquire_next_image
    \/ BuildAndRecord
    \/ wait_image_fence
    \/ submit
    \/ GpuComplete

Spec == Init /\ [][Next]_vars

\* the frame loop on a surface whose swapchains differ in their image count
SpecImages == InitImages /\ [][Next]_vars

\* the frame loop on a window that keeps its size
NextFrames ==
    \/ handle_possible_resize
    \/ acquire_next_image
    \/ BuildAndRecord
    \/ wait_image_fence
    \/ submit
    \/ GpuComplete

\* the frame loop with more updates than images
SpecFlight == InitFlight /\ [][NextFrames]_vars

\* render() runs its steps to the end once it has started (it is straight-line
\* code, lines 741-795) and the GPU finishes the work it was given.
\* BuildAndRecord is enabled exactly in the states with pc = "acquired" and
\* every step of it leaves them, so []<>(pc # "acquired") is
\* WF_vars(BuildAndRecord).
SpecLive ==
    /\ Init
    /\ [][NextFrames]_vars
    /\ []<>(pc # "acquired")
    /\ WF_vars(wait_image_fence)
    /\ WF_vars(submit)
    /\ WF_vars(GpuComplete)

\* the batcher over a scene whose meshes keep their material
NextBatch ==
    \/ SetVertices
    \/ SetPosition
    \/ SetCameraPos
    \/ BatchFrame

SpecBatch == InitBatch /\ [][NextBatch]_vars

\* the batcher over a scene whose meshes may also be given another material
NextRemat ==
    \/ NextBatch
    \/ SetMaterial

SpecRemat == InitBatch /\ [][NextRemat]_vars

\* the batcher over an asset library that loses materials and a pipeline
\* cache that may lack the pipeline of a material
NextAssets ==
    \/ NextBatch
    \/ RemoveMaterial

SpecAssets == InitAssets /\ [][NextAssets]_vars

(***************************************************************************)
(* Definitions used to state the properties.                               *)
(***************************************************************************)
\* S: the meshes of a material with a nonzero vertex count
NonEmptyOf(ms, material) ==
    { i \in 1..Len(ms) : ms[i].material = material /\ Len(ms[i].vertices) # 0 }

\* S in ascending squared distance from the camera, ties in scene order
NearToFar(ms, material, camera_pos) ==
    LET S == NonEmptyOf(ms, material)
        n == Cardinality(S)
    IN  CHOOSE o \in [1..n -> S] :
            \A k, l \in 1..n :
                k < l =>
                    \/ DistSqr(ms, o[k], camera_pos) < DistSqr(ms, o[l], camera_pos)
                    \/ /\ DistSqr(ms, o[k], camera_pos) = DistSqr(ms, o[l], camera_pos)
                       /\ o[k] < o[l]

\* the entries of an Option<Subbuffer<[T]>>
Entries(table) == IF table.some THEN table.val ELSE << >>

BatchBuilt(material) == log.fresh /\ material \in DOMAIN dynamic_mesh_data

\* C2: after prepare_dynamic_meshes the three tables of every material have
\* exactly |S| entries, S the material's meshes with a nonzero vertex count,
\* and position k of each describes the same mesh: the k-th mesh of S has its
\* buffer's address, its model matrix and its vertex count there.
BatchTablesParallel ==
    log.fresh =>
        \A material \in MaterialNames :
            /\ material \in DOMAIN dynamic_mesh_data
            /\ LET pmb == dynamic_mesh_data[material]
                   n == Cardinality(NonEmptyOf(meshes, material))
                   o == NearToFar(meshes, material, vp_pos)
               IN  /\ Len(Entries(pmb.vertex_ptr)) = n
                   /\ Len(Entries(pmb.model)) = n
                   /\ Len(Entries(pmb.indirect_draw)) = n
                   /\ \A k \in 1..n :
                        /\ meshes[o[k]].buffer_id.some
                        /\ meshes[o[k]].buffer_id.val \in DOMAIN pmb.vertex
                        /\ pmb.vertex_ptr.val[k] =
                               device_address(pmb.vertex[meshes[o[k]].buffer_id.val])
                        /\ pmb.model.val[k] = ModelData(meshes[o[k]])
                        /\ pmb.indirect_draw.val[k].vertex_count =
                               Len(meshes[o[k]].vertices)

\* C2 witness: a batch was built for a material that has an empty mesh and
\* two non-empty ones.
BatchTablesParallelWitness ==
    /\ log.fresh
    /\ \E material \in MaterialNames :
        /\ Cardinality(NonEmptyOf(meshes, material)) = 2
        /\ \E i \in 1..Len(meshes) :
            meshes[i].material = material /\ Len(meshes[i].vertices) = 0

\* C3: within one material's batch the entries are in ascending squared
\* distance from the camera, and the k-th indirect command (k from 0) has
\* first_instance = k, instance_count = 1, first_vertex = 0 and the vertex
\* count of the k-th nearest mesh.
BatchNearToFar ==
    log.fresh =>
        \A material \in DOMAIN dynamic_mesh_data :
            LET pmb == dynamic_mesh_data[material]
                o == NearToFar(meshes, material, vp_pos)
            IN  \A k \in 1..Len(Entries(pmb.indirect_draw)) :
                    /\ k \in DOMAIN o
                    /\ k \in DOMAIN Entries(pmb.model)
                    /\ pmb.model.val[k] = ModelData(meshes[o[k]])
                    /\ k > 1 => DistSqr(meshes, o[k - 1], vp_pos)
                                    <= DistSqr(meshes, o[k], vp_pos)
                    /\ pmb.indirect_draw.val[k] =
                           [instance_count |-> 1, first_instance |-> k - 1,
                            vertex_count |-> Len(meshes[o[k]].vertices),
                            first_vertex |-> 0]

\* C3 witness: one material, meshes at distances 1, 5, 3 in scene order; the
\* batch holds them in the order 1, 3, 5 with first_instance 0, 1, 2.
BatchNearToFarWitness ==
    /\ log.fresh
    /\ vp_pos = Origin
    /\ Len(meshes) = 3
    /\ \A i \in 1..3 : meshes[i].material = "a" /\ Len(meshes[i].vertices) # 0
    /\ << meshes[1].position, meshes[2].position, meshes[3].position >>
           = << << 1, 0, 0 >>, << 0, 0, 5 >>, << 0, 3, 0 >> >>
    /\ "a" \in DOMAIN dynamic_mesh_data
    /\ dynamic_mesh_data["a"].model
           = Some(<< ModelData(meshes[1]), ModelData(meshes[3]), ModelData(meshes[2]) >>)
    /\ [k \in 1..3 |-> dynamic_mesh_data["a"].indirect_draw.val[k].first_instance]
           = << 0, 1, 2 >>

\* C4: the distance sort is stable: the meshes given an entry appear in
\* ascending squared distance with meshes at equal distance in scene
\* iteration order, and a build whose camera position, meshes and positions
\* are those of the build before it yields the order of that build.
SortStable ==
    log.fresh =>
        /\ \A material \in DOMAIN log.order :
            LET o == log.order[material]
            IN  \A k, l \in 1..Len(o) :
                    k < l =>
                        \/ DistSqr(meshes, o[k], vp_pos) < DistSqr(meshes, o[l], vp_pos)
                        \/ /\ DistSqr(meshes, o[k], vp_pos) = DistSqr(meshes, o[l], vp_pos)
                           /\ o[k] < o[l]
        /\ (log.prev.some /\ log.prev.val.inputs = log.inputs.val)
               => log.prev.val.order = log.order

\* C4 witness: the second of two builds of an unchanged scene, in which two
\* meshes of a material are at the same distance from the camera.
SortStableWitness ==
    /\ log.fresh
    /\ log.prev.some
    /\ log.prev.val.inputs = log.inputs.val
    /\ \E material \in DOMAIN log.order :
        \E k, l \in 1..Len(log.order[material]) :
            /\ k < l
            /\ DistSqr(meshes, log.order[material][k], vp_pos)
                   = DistSqr(meshes, log.order[material][l], vp_pos)

\* id_count of a material in a dynamic_mesh_data map (0 before its first build)
IdCount(dmd, material) ==
    IF material \in DOMAIN dmd THEN dmd[material].id_count ELSE 0

\* the meshes of S that had no buffer_id before the last build
FirstUploads(material) ==
    { i \in NonEmptyOf(meshes, material) : ~log.before.val.ms[i].buffer_id.some }

\* C5: a non-empty mesh whose buffer_id is None receives, in the first batch
\* it appears in, the material's next sequential id: the id_count of that
\* moment, which then grows by one.  The ids a material has handed out, in
\* the order it handed them out, are strictly increasing, so none was given
\* twice.
IdsSequential ==
    log.fresh =>
        \A material \in MaterialNames :
            LET before == IdCount(log.before.val.dmd, material)
                o == NearToFar(meshes, material, vp_pos)
                new == FirstUploads(material)
            IN  /\ IdCount(dynamic_mesh_data, material) = before + Cardinality(new)
                /\ \A k \in DOMAIN o :
                    IF o[k] \in new
                    THEN meshes[o[k]].buffer_id =
                             Some(before + Cardinality({ j \in 1..(k - 1) : o[j] \in new }))
                    ELSE meshes[o[k]].buffer_id = log.before.val.ms[o[k]].buffer_id
                /\ \A k, l \in 1..Len(log.handed[material]) :
                    k < l => log.handed[material][k] < log.handed[material][l]
                /\ Len(log.handed[material]) >= Cardinality(new)
                /\ \A i \in new :
                    \E k \in 1..Len(log.handed[material]) :
                        /\ k > Len(log.handed[material]) - Cardinality(new)
                        /\ meshes[i].buffer_id = Some(log.handed[material][k])

\* C5 witness: a build hands out an id in a material that handed out two ids
\* in earlier builds.
IdsSequentialWitness ==
    /\ log.fresh
    /\ \E material \in MaterialNames :
        /\ IdCount(log.before.val.dmd, material) >= 2
        /\ FirstUploads(material) # {}

\* C6: when an uploaded mesh has its changed flag set, the next build of its
\* material replaces the buffer stored under the mesh's buffer_id by a new
\* buffer object built from the mesh's current vertices, and clears changed.
ReuploadInPlace ==
    log.fresh =>
        \A material \in DOMAIN log.reup :
            \A r \in log.reup[material] :
                LET vertex == dynamic_mesh_data[material].vertex
                IN  /\ ~meshes[r.mesh].changed
                    /\ r.id \in DOMAIN vertex
                    /\ vertex[r.id].data = meshes[r.mesh].vertices
                    /\ r.old.some => vertex[r.id].obj # r.old.val

\* C7: in a frame where a material has no non-empty mesh, its three buffers
\* are unset and the recorded command buffer holds no pipeline bind and no
\* draw for it, whatever batch it had before.
EmptyBatchSkipped ==
    log.fresh =>
        \A material \in MaterialNames :
            NonEmptyOf(meshes, material) = {} =>
                /\ material \in DOMAIN dynamic_mesh_data
                /\ dynamic_mesh_data[material].vertex_ptr = None
                /\ dynamic_mesh_data[material].model = None
                /\ dynamic_mesh_data[material].indirect_draw = None
                /\ command_buffer.some
                /\ \A d \in command_buffer.val.draws : d.material # material

\* C7 witness: a material that had a complete batch before the last build has
\* no non-empty mesh in it, while another material is drawn.
EmptyBatchSkippedWitness ==
    /\ log.fresh
    /\ command_buffer.some
    /\ command_buffer.val.draws # {}
    /\ \E material \in MaterialNames :
        /\ NonEmptyOf(meshes, material) = {}
        /\ material \in DOMAIN log.before.val.dmd
        /\ Complete(log.before.val.dmd[material])

\* C1: no command buffer is recorded for image i while the fence in slot i
\* is unsignaled: when the command buffer of a frame has been recorded, the
\* fence stored in the acquired image's slot, if any, has signaled.
RecordedAfterFenceWait ==
    (pc = "recorded" /\ fences[image_i].some) => Signaled(fences[image_i].val)

\* C8: a swapchain recreation leaves the key set of the pipeline cache as it
\* was, and every key holds a pipeline built for the new swapchain and
\* viewport.
PipelineKeysKept ==
    (log.resize.some /\ pc # "panicked") =>
        /\ DOMAIN pipelines = log.resize.val.keys
        /\ \A k \in DOMAIN pipelines :
            pipelines[k] = [shaders |-> k, viewport |-> viewport, build |-> swapchain.gen]

\* C8 witness: an update has recreated the swapchain with two pipelines in
\* the cache.
PipelineKeysKeptWitness ==
    /\ pc = "render"
    /\ log.resize.some
    /\ Cardinality(log.resize.val.keys) = 2
    /\ swapchain.gen > 0

\* C9: after a resize is handled the projection is the perspective matrix of
\* the camera's vfov, near and far with aspect ratio width / height of the
\* window's drawable size, and the viewport extent is that size.
ProjectionFollowsResize ==
    (log.resize.some /\ pc \in { "render", "acquired", "recorded", "waited" }) =>
        /\ camera.some
        /\ projection = perspective(camera.val.vfov,
                                    Rat(window_size[1], window_size[2]),
                                    camera.val.near, camera.val.far)
        /\ viewport = window_size
        /\ swapchain.extent = window_size

\* C9 witness: a resize to 800 x 600 has been handled; f / aspect is 3/4 f.
ProjectionFollowsResizeWitness ==
    /\ pc = "render"
    /\ log.resize.some
    /\ window_size = << 800, 600 >>
    /\ swapchain.gen > 0
    /\ projection.m00.times = << 3, 4 >>

\* C10: a frame whose acquisition or presentation reported out-of-date has
\* set recreate_swapchain, has put no work of its own on the queue and has
\* left no fence in the image's slot.
OutOfDateAbortsCleanly ==
    ( /\ pc = "idle"
      /\ log.acquire = "out_of_date" \/ log.submit = "out_of_date" )
        => /\ recreate_swapchain
           /\ \A k \in 1..Len(gpu) : gpu[k].frame # frame
           /\ log.submit = "out_of_date" => fences[image_i] = None

\* the state of a frame whose acquisition reported suboptimal
SuboptimalFrame ==
    log.acquire = "suboptimal" =>
        /\ recreate_swapchain
        /\ pc \in { "acquired", "recorded", "waited", "idle" }
        /\ pc # "acquired" =>
            /\ log.fresh
            /\ command_buffer.some
            /\ command_buffer.val.framebuffer.image = image_i
        /\ pc = "idle" =>
            /\ log.submit # "none"
            /\ log.submit = "ok" =>
                /\ fences[image_i] = Some(Len(gpu))
                /\ gpu[Len(gpu)].frame = frame
                /\ gpu[Len(gpu)].image = image_i
                /\ gpu[Len(gpu)].cmd = command_buffer.val

\* C11: a frame whose acquisition reported suboptimal has recreate_swapchain
\* set and is carried through: the batches are built and the command buffer
\* recorded for the acquired image, the frame reaches its submission, and a
\* submission that is flushed leaves its fence in the image's slot.
SuboptimalFrameCompletes ==
    /\ []SuboptimalFrame
    /\ (pc = "acquired" /\ log.acquire = "suboptimal")
           ~> (pc = "idle" /\ log.acquire = "suboptimal" /\ log.submit # "none")

\* C11 witness: a suboptimal frame was submitted and its fence is in the slot
\* of an image that held the fence of an earlier submission.
SuboptimalFrameCompletesWitness ==
    /\ pc = "idle"
    /\ log.acquire = "suboptimal"
    /\ log.submit = "ok"
    /\ recreate_swapchain
    /\ fences[image_i] = Some(Len(gpu))
    /\ \E k \in 1..(Len(gpu) - 1) : gpu[k].image = image_i

\* C12: an acquisition error or a presentation/submission error other than
\* out-of-date ends the render loop: once one was reported, the program has
\* terminated and no later frame runs.
OtherErrorsFatal ==
    (log.acquire = "error" \/ log.submit = "error") => pc = "panicked"

\* the submissions made for image i
SubmissionsFor(i) == { k \in 1..Len(gpu) : gpu[k].image = i }

\* C13: slot i holds the fence of the most recent submission for image i, and
\* it is empty only when no work submitted for image i is unfinished.
SlotHoldsLatestSubmission ==
    \A i \in DOMAIN fences :
        IF fences[i].some
        THEN /\ fences[i].val \in SubmissionsFor(i)
             /\ \A k \in SubmissionsFor(i) : k <= fences[i].val
        ELSE \A k \in SubmissionsFor(i) : gpu[k].done

\* C14: every submission waits for the most recent earlier submission, so
\* the GPU finishes the submissions in the order they were made.
FramesExecuteInOrder ==
    \A l \in 2..Len(gpu) :
        /\ gpu[l].dep = Some(l - 1)
        /\ gpu[l].done => gpu[l - 1].done

\* C15: whatever number of Resized events and recreate requests were raised
\* before an update, the update recreates the swapchain exactly once if any
\* was raised and not at all otherwise, and leaves both flags false.
ResizeIdempotent ==
    pc = "render" =>
        LET u == log.update.val
            requested == u.window_resized \/ u.recreate_swapchain
        IN  /\ ~window_resized
            /\ ~recreate_swapchain
            /\ swapchain.gen = u.gen + (IF requested THEN 1 ELSE 0)
            /\ log.resize.some <=> requested
            /\ u.notified > 0 => u.window_resized

\* C15 witness: an update that started with several Resized events and a
\* recreate request pending has recreated the swapchain once.
ResizeIdempotentWitness ==
    /\ pc = "render"
    /\ log.update.val.notified = 2
    /\ log.update.val.window_resized
    /\ log.update.val.recreate_swapchain
    /\ swapchain.gen = log.update.val.gen + 1

\* C16: the swapchain is recreated only by the step that starts an update,
\* from the idle state before anything is acquired; no step between the
\* acquisition of an image and the storing of the frame's fence changes it.
RecreationOnlyAtFrameStart ==
    [][ swapchain' # swapchain =>
            /\ pc = "idle"
            /\ pc' \in { "render", "panicked" }
            /\ frame' = frame + 1 ]_vars

\* C16 witness: an update that recreated the swapchain at its start is past
\* its fence wait with another recreation requested, and the swapchain is
\* the one its command buffer was recorded for.
RecreationOnlyAtFrameStartWitness ==
    /\ pc = "waited"
    /\ recreate_swapchain
    /\ log.resize.some
    /\ swapchain.gen > 0
    /\ command_buffer.val.framebuffer.swapchain = swapchain.gen

\* C17: a mesh with zero vertices takes no part in its material's build: it
\* has no entry in the tables, it is handed no id and no buffer is allocated
\* for it, the id counter advances only for the non-empty first uploads, and
\* its buffer_id and changed fields are what they were before the build.
EmptyMeshExcluded ==
    log.fresh =>
        \A i \in 1..Len(meshes) :
            Len(meshes[i].vertices) = 0 =>
                LET material == meshes[i].material
                    pmb == dynamic_mesh_data[material]
                    was == log.before.val
                    n == Cardinality(NonEmptyOf(meshes, material))
                IN  /\ meshes[i].buffer_id = was.ms[i].buffer_id
                    /\ meshes[i].changed = was.ms[i].changed
                    /\ \A k \in DOMAIN log.order[material] : log.order[material][k] # i
                    /\ \A k \in DOMAIN log.ids[material] : log.ids[material][k].mesh # i
                    /\ Len(Entries(pmb.vertex_ptr)) = n
                    /\ Len(Entries(pmb.model)) = n
                    /\ Len(Entries(pmb.indirect_draw)) = n
                    /\ pmb.id_count = IdCount(was.dmd, material)
                                          + Cardinality(FirstUploads(material))
                    /\ \A key \in DOMAIN pmb.vertex :
                        pmb.vertex[key].src = i =>
                            /\ material \in DOMAIN was.dmd
                            /\ key \in DOMAIN was.dmd[material].vertex
                            /\ was.dmd[material].vertex[key] = pmb.vertex[key]

\* C17 witness: a build of a material with a drawn mesh and an empty mesh
\* that has its changed flag set and no buffer_id.
EmptyMeshExcludedWitness ==
    /\ log.fresh
    /\ \E i \in 1..Len(meshes) :
        /\ Len(meshes[i].vertices) = 0
        /\ meshes[i].changed
        /\ ~meshes[i].buffer_id.some
        /\ Complete(dynamic_mesh_data[meshes[i].material])
        /\ log.ids[meshes[i].material] # << >>

\* the materials of the asset library, by name
Registered == { materials[k].name : k \in 1..Len(materials) }

\* C18: a command buffer is never recorded while a material with a complete
\* batch is absent from the asset library: the recording of such a frame
\* ends the program.  What is recorded draws every material that has a
\* complete batch, each with the pipeline of its own two shaders.
MissingMaterialFatal ==
    log.fresh =>
        /\ command_buffer.some
        /\ \A key \in Drawn(dynamic_mesh_data) :
            /\ key \in Registered
            /\ \E d \in command_buffer.val.draws : d.material = key
        /\ \A d \in command_buffer.val.draws :
            /\ d.material \in Drawn(dynamic_mesh_data) \cap Registered
            /\ d.pipeline.shaders = PipelineKey(MaterialOf(materials, d.material).val)

\* C18 witness: the program has ended in the recording of a frame in which a
\* material with a complete batch is not in the asset library, the pipelines
\* of all materials being in the cache.
MissingMaterialFatalWitness ==
    /\ pc = "panicked"
    /\ DOMAIN pipelines = AllPipelineKeys
    /\ \E key \in Drawn(dynamic_mesh_data) : key \notin Registered

\* C19: the recorder gets a pipeline for the two shaders of every material
\* with a complete batch, the cache building one when it holds none: a
\* recorded frame draws each such material with a pipeline of the cache, and
\* recording ends the program only when a material is missing from the
\* asset library.
PipelineGetOrBuild ==
    /\ log.fresh =>
            \A d \in command_buffer.val.draws :
                /\ PipelineKey(MaterialOf(materials, d.material).val) \in DOMAIN pipelines
                /\ d.pipeline = pipelines[PipelineKey(MaterialOf(materials, d.material).val)]
    /\ pc = "panicked" =>
            \E key \in Drawn(dynamic_mesh_data) : key \notin Registered

\* C20: an update that runs while the scene has no camera ends the program
\* instead of submitting a frame: without a camera no submission is ever
\* made.
NoCameraFatal ==
    ~camera.some =>
        /\ log.submit = "none"
        /\ gpu = << >>

\* C21: in every state there is one fence slot and one VP buffer per image
\* of the swapchain, so every index an acquisition returns is an index of
\* both.
SlotsPerImage ==
    /\ DOMAIN fences = ImagesOf(swapchain.images)
    /\ DOMAIN vp_buffers = ImagesOf(swapchain.images)

\* the submissions whose fence has not signaled
InFlight == { k \in 1..Len(gpu) : gpu[k].fenced /\ ~gpu[k].done }

BatchBuiltBeforeRecord ==
    log.fresh =>
        /\ \A material \in Registered :
            NonEmptyOf(meshes, material) # {} =>
                \E d \in command_buffer.val.draws : d.material = material
        /\ \A d \in command_buffer.val.draws :
            LET pmb == dynamic_mesh_data[d.material]
                o == NearToFar(meshes, d.material, vp_pos)
            IN  /\ d.material \in DOMAIN log.order
                /\ log.order[d.material] = o
                /\ d.m_set = pmb.model.val
                /\ d.vertex_set = pmb.vertex_ptr.val
                /\ d.draw_indirect = pmb.indirect_draw.val
                /\ Len(d.m_set) = Len(o)
                /\ Len(d.vertex_set) = Len(o)
                /\ Len(d.draw_indirect) = Len(o)
                /\ \A k \in DOMAIN o :
                    /\ d.m_set[k] = ModelData(meshes[o[k]])
                    /\ d.draw_indirect[k].vertex_count = Len(meshes[o[k]].vertices)

\* C23 witness: a recorded frame draws a material that had a complete batch
\* before the build of this frame, while the entry of a material that left
\* the asset library is still stored.
BatchBuiltBeforeRecordWitness ==
    /\ log.fresh
    /\ \E key \in DOMAIN dynamic_mesh_data : key \notin Registered
    /\ \E d \in command_buffer.val.draws :
        /\ d.material \in DOMAIN log.before.val.dmd
        /\ Complete(log.before.val.dmd[d.material])

\* C24: the fence wait has no timeout.  While the fence in the acquired
\* image's slot has not signaled, the update stays at the wait: it submits
\* nothing, acquires nothing and does not return.  When the GPU signals every
\* fence it was given, the wait returns and the update ends.
FenceWaitBlocks ==
    /\ [][ ( /\ pc = "recorded"
             /\ fences[image_i].some
             /\ ~Signaled(fences[image_i].val) )
              => /\ pc' = "recorded"
                 /\ frame' = frame
                 /\ image_i' = image_i
                 /\ fences' = fences
                 /\ Len(gpu') = Len(gpu) ]_vars
    /\ (pc = "recorded") ~> (pc = "waited")
    /\ (pc = "acquired") ~> (pc = "idle")

\* C24 witness: an update is at its fence wait and the fence in the slot of
\* the acquired image has not signaled.
FenceWaitBlocksWitness ==
    /\ pc = "recorded"
    /\ fences[image_i].some
    /\ ~Signaled(fences[image_i].val)

VertexKeysDense ==
    \A material \in DOMAIN dynamic_mesh_data :
        DOMAIN dynamic_mesh_data[material].vertex =
            0..(dynamic_mesh_data[material].id_count - 1)

\* C27: in every built batch the address at position k is that of a buffer
\* holding the current vertices of the k-th mesh, and the k-th indirect
\* command's vertex_count is the number of vertices in that buffer.
BatchAddressesCurrent ==
    log.fresh =>
        \A material \in DOMAIN dynamic_mesh_data :
            LET pmb == dynamic_mesh_data[material]
                o == NearToFar(meshes, material, vp_pos)
            IN  \A k \in 1..Len(Entries(pmb.vertex_ptr)) :
                    \A id \in DOMAIN pmb.vertex :
                        device_address(pmb.vertex[id]) = pmb.vertex_ptr.val[k] =>
                            /\ pmb.vertex[id].data = meshes[o[k]].vertices
                            /\ pmb.indirect_draw.val[k].vertex_count =
                                   Len(pmb.vertex[id].data)

\* C28: the program does not stop in a batch build, and after a build every
\* non-empty mesh with a buffer_id has that id as a key of its own material's
\* vertex map, mapped to a buffer that was uploaded for that mesh; also when
\* the mesh's material name changed after its first upload.
BufferIdInOwnMap ==
    /\ pc # "panicked"
    /\ log.fresh =>
        \A material \in DOMAIN dynamic_mesh_data :
            \A i \in NonEmptyOf(meshes, material) :
                meshes[i].buffer_id.some =>
                    /\ meshes[i].buffer_id.val \in DOMAIN dynamic_mesh_data[material].vertex
                    /\ dynamic_mesh_data[material].vertex[meshes[i].buffer_id.val].src = i

\* the results of the last update ask for a new swapchain
FlaggedByResults ==
    \/ log.acquire \in {"out_of_date", "suboptimal"}
    \/ log.submit = "out_of_date"

RecreationAfterFences ==
    [][ swapchain' # swapchain =>
            \A i \in DOMAIN fences : fences[i].some => Signaled(fences[i].val) ]_vars

====
